---- MODULE Spec2Model ----
(***************************************************************************)
(* The two notebooks of the repository, as state machines.                 *)
(*                                                                         *)
(*  - the asynchronous example (Spec, FairSpec): Pool(processes=8),        *)
(*    map_async(task, range(60), chunksize=16, error_callback=...),        *)
(*    main_task(), pool.close(), pool.join();                              *)
(*  - the hashing example (HashSpec): the serial set comprehension and     *)
(*    set(p.map(hash_word, words));                                        *)
(*  - the ERA5 notebook (Era5Spec): its cells, run from a fresh kernel.    *)
(*                                                                         *)
(* Pool is CPython's multiprocessing.Pool (3.10): the task handler feeds   *)
(* the chunks to the workers' queue, a worker runs one chunk at a time     *)
(* with mapstar, the result handler calls MapResult._set for each chunk.   *)
(*                                                                         *)
(* The sizes of the asynchronous example are represented by the bounds     *)
(* below, which keep its layout: four chunks, the last one shorter, one    *)
(* raising value inside the first chunk and one inside the third, each     *)
(* with values before and after it in its chunk.                           *)
(***************************************************************************)
EXTENDS Integers, Sequences, FiniteSets, TLC

\* range(60): the number of inputs of map_async
NumValues == 11
\* chunksize=16
ChunkSize == 3
\* Pool(processes=8)
Processes == 3
\* for i in range(100) of main_task
MainIterations == 2
\* value == 13
SentinelLo == 1
\* value == 42
SentinelHi == 7
\* the longest word list read from 1m_words.txt
MaxWords == 5
\* how many cell executions of the ERA5 notebook are followed
MaxCellRuns == 6

VARIABLES
    prog,        \* which notebook program runs: "async", "hash" or "era5"
    pc,          \* the main program's position
    nproc,       \* the pool's number of worker processes
    words,       \* the hashing example's word list
    poolState,   \* pool._state: "NONE" before Pool(), then RUN, CLOSE, TERMINATE
    taskqueue,   \* pool._taskqueue: chunks the task handler has not fed yet
    inqueue,     \* pool._inqueue: chunks (and exit sentinels) waiting for a worker
    outqueue,    \* pool._outqueue: chunk results (and the sentinel) for the result handler
    worker,      \* per worker process: state, chunk, position in it, results so far
    mapres,      \* the MapResult of the map call
    handlers,    \* [workers |-> the worker/task handler threads run, results |-> the result handler runs]
    ran,         \* per chunk: the <<worker, item>> calls of the function, in order
    printed,     \* per input position: how many '>task(value)' lines were printed
    raised,      \* the errors raised inside worker tasks
    cbLog,       \* the arguments galactic_error was called with, in order
    firstError,  \* <<the first error the result handler received>>, <<>> before
    mainLog,     \* the i of the '$main(i)' lines printed, in order
    mainExc,     \* the exception that reached the main program, "none" if none
    known_serial,   \* known_words of the serial cell
    known_parallel, \* known_words of the parallel cell
    era5         \* the ERA5 notebook's kernel

poolVars == <<poolState, taskqueue, inqueue, outqueue, worker, mapres, handlers>>
obsVars == <<ran, printed, raised, cbLog, firstError>>
mainVars == <<pc, mainLog, mainExc, known_serial, known_parallel>>
vars == <<prog, nproc, words, poolVars, obsVars, mainVars, era5>>

None == "None"
NoTask == [i |-> 0, args |-> <<>>]
NoResult == [number_left |-> 0, value |-> <<>>, success |-> TRUE, chunksize |-> 0,
             ready |-> FALSE, cached |-> FALSE, has_error_callback |-> FALSE]

----
\* the asynchronous example's functions

Sentinels == {SentinelLo, SentinelHi}

ValueError(value) == [exc |-> "ValueError", value |-> value]

\* task(value): raises for the two impossible values, else sleeps, prints and returns None
taskOneSentinel(value) ==
    IF value = SentinelHi
    THEN [raises |-> TRUE, error |-> ValueError(value), prints |-> 0, result |-> None]
    ELSE [raises |-> FALSE, error |-> None, prints |-> 1, result |-> None]

task(value) ==
    IF value = SentinelHi \/ value = SentinelLo
    THEN [raises |-> TRUE, error |-> ValueError(value), prints |-> 0, result |-> None]
    ELSE [raises |-> FALSE, error |-> None, prints |-> 1, result |-> None]

\* the worker counts tried for the hashing (processes = 8 in the notebook, which
\* the reader is told to change)
ProcChoices == {1, 2}

\* range(n) as a list
Range(n) == [k \in 1..n |-> k - 1]

----
\* the hashing example's function

\* the words a line of 1m_words.txt may hold, as code points: "a\n" and "e-acute\n"
WordChoices == {<<97, 10>>, <<233, 10>>}

\* word.encode('utf-8'), for code points below 2048
RECURSIVE encode(_)
encode(word) ==
    IF word = <<>> THEN <<>>
    ELSE LET c == Head(word)
         IN  (IF c < 128 THEN <<c>> ELSE <<192 + (c \div 64), 128 + (c % 64)>>)
             \o encode(Tail(word))

\* sha512(): hash_object.update(byte_data) folds the bytes into the digest state.
\* The 512-bit compression is represented by a one-byte one: what is kept is
\* that the digest is a function of the bytes alone, collisions included.
RECURSIVE update(_, _)
update(h, byte_data) ==
    IF byte_data = <<>> THEN h
    ELSE update((h * 31 + Head(byte_data)) % 256, Tail(byte_data))

HexDigit(d) == CASE d = 0 -> "0" [] d = 1 -> "1" [] d = 2 -> "2" [] d = 3 -> "3"
                 [] d = 4 -> "4" [] d = 5 -> "5" [] d = 6 -> "6" [] d = 7 -> "7"
                 [] d = 8 -> "8" [] d = 9 -> "9" [] d = 10 -> "a" [] d = 11 -> "b"
                 [] d = 12 -> "c" [] d = 13 -> "d" [] d = 14 -> "e" [] d = 15 -> "f"

hexdigest(h) == HexDigit(h \div 16) \o HexDigit(h % 16)

hash_word(word) == hexdigest(update(7, encode(word)))

\* the function the pool maps, applied to one item
Apply(item) ==
    IF prog = "async" THEN task(item)
    ELSE [raises |-> FALSE, error |-> None, prints |-> 0, result |-> hash_word(item)]

----
\* multiprocessing.Pool

Min(a, b) == IF a < b THEN a ELSE b

\* chunks of exactly size items: a last, shorter chunk is lost
get_tasks_dropping_rest(items, size) ==
    IF items = <<>> \/ size <= 0 THEN <<>>
    ELSE [k \in 1..(Len(items) \div size) |-> SubSeq(items, (k - 1) * size + 1, k * size)]

\* Pool._get_tasks: islice(it, size) until the iterable is exhausted
RECURSIVE get_tasks(_, _)
get_tasks(items, size) ==
    IF items = <<>> \/ size <= 0 THEN <<>>
    ELSE <<SubSeq(items, 1, Min(size, Len(items)))>>
         \o get_tasks(SubSeq(items, Min(size, Len(items)) + 1, Len(items)), size)

\* chunksize=None: divmod(len(iterable), len(self._pool) * 4), rounded up
default_chunksize(length, n) ==
    (length \div (n * 4)) + (IF length % (n * 4) # 0 THEN 1 ELSE 0)

\* MapResult.__init__
MapResult(chunksize, length, error_callback) ==
    IF chunksize <= 0
    THEN [number_left |-> 0, value |-> [k \in 1..length |-> None], success |-> TRUE,
          chunksize |-> chunksize, ready |-> TRUE, cached |-> FALSE,
          has_error_callback |-> error_callback]
    ELSE [number_left |-> (length \div chunksize) + (IF length % chunksize # 0 THEN 1 ELSE 0),
          value |-> [k \in 1..length |-> None], success |-> TRUE,
          chunksize |-> chunksize, ready |-> FALSE, cached |-> TRUE,
          has_error_callback |-> error_callback]

\* the slice assignment without the chunk's offset
SliceAssignAtStart(value, lo, hi, result) ==
    result \o SubSeq(value, Min(Len(result), Len(value)) + 1, Len(value))

\* self._value[i*chunksize:(i+1)*chunksize] = result
SliceAssign(value, lo, hi, result) ==
    SubSeq(value, 1, Min(lo, Len(value))) \o result
        \o SubSeq(value, Min(hi, Len(value)) + 1, Len(value))

\* MapResult._set keeping the last error received instead of the first
MapResultSetLastError(mr, i, success, result) ==
    LET left == mr.number_left - 1
        done == left = 0
    IN  IF success /\ mr.success
        THEN [mr |-> [mr EXCEPT !.number_left = left,
                                !.value = SliceAssign(mr.value, i * mr.chunksize,
                                                      (i + 1) * mr.chunksize, result),
                                !.ready = done, !.cached = ~done],
              error_calls |-> <<>>]
        ELSE LET value == IF ~success THEN result ELSE mr.value
             IN  [mr |-> [mr EXCEPT !.number_left = left,
                                    !.success = FALSE,
                                    !.value = value,
                                    !.ready = done, !.cached = ~done],
                  error_calls |-> IF done /\ mr.has_error_callback THEN <<value>> ELSE <<>>]

\* MapResult._set(i, (success, result)): the new MapResult and the error callback's calls
MapResultSet(mr, i, success, result) ==
    LET left == mr.number_left - 1
        done == left = 0
    IN  IF success /\ mr.success
        THEN [mr |-> [mr EXCEPT !.number_left = left,
                                !.value = SliceAssign(mr.value, i * mr.chunksize,
                                                      (i + 1) * mr.chunksize, result),
                                !.ready = done, !.cached = ~done],
              error_calls |-> <<>>]
        ELSE LET value == IF ~success /\ mr.success THEN result ELSE mr.value
             IN  [mr |-> [mr EXCEPT !.number_left = left,
                                    !.success = FALSE,
                                    !.value = value,
                                    !.ready = done, !.cached = ~done],
                  error_calls |-> IF done /\ mr.has_error_callback THEN <<value>> ELSE <<>>]

\* Pool._map_async: chunksize 0 stands for None
map_async(items, chunksize, error_callback) ==
    LET cs0 == IF chunksize = 0 THEN default_chunksize(Len(items), nproc) ELSE chunksize
        cs == IF Len(items) = 0 THEN 0 ELSE cs0
        batches == get_tasks(items, cs)
    IN  /\ taskqueue' = [k \in 1..Len(batches) |-> [i |-> k - 1, args |-> batches[k]]]
        /\ mapres' = MapResult(cs, Len(items), error_callback)

IdleWorker == [state |-> "idle", task |-> NoTask, pos |-> 0, out |-> <<>>]
ExitedWorker == [state |-> "exited", task |-> NoTask, pos |-> 0, out |-> <<>>]
ExitTask == [i |-> -1, args |-> <<>>]
ExitResult == [i |-> -1, success |-> TRUE, result |-> <<>>]

\* with Pool(processes) as pool: the workers and the handler threads start
CreatePool ==
    /\ pc = "create"
    /\ poolState = "NONE"
    /\ poolState' = "RUN"
    /\ worker' = [w \in 1..nproc |-> IdleWorker]
    /\ handlers' = [workers |-> TRUE, results |-> TRUE]
    /\ pc' = IF prog = "async" THEN "map_async" ELSE "map"
    /\ UNCHANGED <<prog, nproc, words, taskqueue, inqueue, outqueue, mapres, obsVars,
                   mainLog, mainExc, known_serial, known_parallel, era5>>

\* Pool._handle_tasks: put(task) for the next task of the sequence
TaskHandlerFeed ==
    /\ poolState \in {"RUN", "CLOSE"}
    /\ taskqueue # <<>>
    /\ inqueue' = Append(inqueue, Head(taskqueue))
    /\ taskqueue' = Tail(taskqueue)
    /\ UNCHANGED <<prog, nproc, words, poolState, outqueue, worker, mapres, handlers,
                   obsVars, mainVars, era5>>

\* worker(): task = get() of a chunk
WorkerGet(w) ==
    /\ poolState \in {"RUN", "CLOSE"}
    /\ worker[w].state = "idle"
    /\ inqueue # <<>>
    /\ Head(inqueue) # ExitTask
    /\ worker' = [worker EXCEPT ![w] = [state |-> "busy", task |-> Head(inqueue),
                                        pos |-> 1, out |-> <<>>]]
    /\ inqueue' = Tail(inqueue)
    /\ UNCHANGED <<prog, nproc, words, poolState, taskqueue, outqueue, mapres, handlers,
                   obsVars, mainVars, era5>>

\* worker(): task = get() of the sentinel None: the worker process exits
WorkerExit(w) ==
    /\ poolState \in {"RUN", "CLOSE"}
    /\ worker[w].state = "idle"
    /\ inqueue # <<>>
    /\ Head(inqueue) = ExitTask
    /\ worker' = [worker EXCEPT ![w] = ExitedWorker]
    /\ inqueue' = Tail(inqueue)
    /\ UNCHANGED <<prog, nproc, words, poolState, taskqueue, outqueue, mapres, handlers,
                   obsVars, mainVars, era5>>

\* a worker that goes on with the chunk's next item after a call has raised
WorkerRunContinuing(w) ==
    /\ poolState \in {"RUN", "CLOSE"}
    /\ worker[w].state = "busy"
    /\ LET t == worker[w].task
           p == worker[w].pos
           item == t.args[p]
           r == Apply(item)
           where == t.i * mapres.chunksize + p
           failed == r.raises \/ worker[w].out = <<"failed">>
       IN  /\ ran' = [ran EXCEPT ![t.i + 1] = Append(@, <<w, item>>)]
           /\ printed' = [printed EXCEPT ![where] = @ + r.prints]
           /\ raised' = IF r.raises THEN raised \cup {r.error} ELSE raised
           /\ IF p = Len(t.args)
              THEN /\ outqueue' = Append(outqueue,
                                     [i |-> t.i, success |-> ~failed,
                                      result |-> IF failed THEN ValueError(item)
                                                 ELSE Append(worker[w].out, r.result)])
                   /\ worker' = [worker EXCEPT ![w] = IdleWorker]
              ELSE /\ outqueue' = outqueue
                   /\ worker' = [worker EXCEPT ![w].pos = p + 1,
                                               ![w].out = IF failed THEN <<"failed">>
                                                          ELSE Append(@, r.result)]
    /\ UNCHANGED <<prog, nproc, words, poolState, taskqueue, inqueue, mapres, handlers,
                   cbLog, firstError, mainVars, era5>>

\* worker(): result = (True, mapstar(args)) or (False, e), one call of the function
\* at a time; put((job, i, result)) follows the chunk's last call or the raise
WorkerRun(w) ==
    /\ poolState \in {"RUN", "CLOSE"}
    /\ worker[w].state = "busy"
    /\ LET t == worker[w].task
           p == worker[w].pos
           item == t.args[p]
           r == Apply(item)
           where == t.i * mapres.chunksize + p
       IN  /\ ran' = [ran EXCEPT ![t.i + 1] = Append(@, <<w, item>>)]
           /\ printed' = [printed EXCEPT ![where] = @ + r.prints]
           /\ raised' = IF r.raises THEN raised \cup {r.error} ELSE raised
           /\ IF r.raises
              THEN /\ outqueue' = Append(outqueue,
                                     [i |-> t.i, success |-> FALSE, result |-> r.error])
                   /\ worker' = [worker EXCEPT ![w] = IdleWorker]
              ELSE IF p = Len(t.args)
              THEN /\ outqueue' = Append(outqueue,
                                     [i |-> t.i, success |-> TRUE,
                                      result |-> Append(worker[w].out, r.result)])
                   /\ worker' = [worker EXCEPT ![w] = IdleWorker]
              ELSE /\ outqueue' = outqueue
                   /\ worker' = [worker EXCEPT ![w].pos = p + 1,
                                               ![w].out = Append(@, r.result)]
    /\ UNCHANGED <<prog, nproc, words, poolState, taskqueue, inqueue, mapres, handlers,
                   cbLog, firstError, mainVars, era5>>

\* error callback function
galactic_error(value) == <<value>>

\* Pool._handle_results: task = get(); cache[job]._set(i, obj)
ResultHandlerSet ==
    /\ poolState \in {"RUN", "CLOSE"}
    /\ handlers.results
    /\ outqueue # <<>>
    /\ Head(outqueue) # ExitResult
    /\ LET m == Head(outqueue)
           s == MapResultSet(mapres, m.i, m.success, m.result)
       IN  /\ mapres' = s.mr
           /\ cbLog' = IF s.error_calls = <<>> THEN cbLog
                       ELSE cbLog \o galactic_error(s.error_calls[1])
           /\ firstError' = IF ~m.success /\ firstError = <<>> THEN <<m.result>>
                            ELSE firstError
    /\ outqueue' = Tail(outqueue)
    /\ UNCHANGED <<prog, nproc, words, poolState, taskqueue, inqueue, worker, handlers,
                   ran, printed, raised, mainVars, era5>>

\* Pool._handle_results: task is None: the result handler thread ends
ResultHandlerExit ==
    /\ poolState \in {"RUN", "CLOSE"}
    /\ handlers.results
    /\ outqueue # <<>>
    /\ Head(outqueue) = ExitResult
    /\ ~mapres.cached
    /\ handlers' = [handlers EXCEPT !.results = FALSE]
    /\ outqueue' = Tail(outqueue)
    /\ UNCHANGED <<prog, nproc, words, poolState, taskqueue, inqueue, worker, mapres,
                   obsVars, mainVars, era5>>

\* the handlers' end with a single sentinel for all the workers
HandlersFinishOneSentinel ==
    /\ poolState = "CLOSE"
    /\ handlers.workers
    /\ ~mapres.cached
    /\ taskqueue = <<>>
    /\ handlers' = [handlers EXCEPT !.workers = FALSE]
    /\ outqueue' = Append(outqueue, ExitResult)
    /\ inqueue' = Append(inqueue, ExitTask)
    /\ UNCHANGED <<prog, nproc, words, poolState, taskqueue, worker, mapres,
                   obsVars, mainVars, era5>>

\* Pool._handle_workers leaves its loop once the pool is closed and the cache is
\* empty, and puts None on the task queue; Pool._handle_tasks then passes the
\* sentinel to the result handler and one to each worker
HandlersFinish ==
    /\ poolState = "CLOSE"
    /\ handlers.workers
    /\ ~mapres.cached
    /\ taskqueue = <<>>
    /\ handlers' = [handlers EXCEPT !.workers = FALSE]
    /\ outqueue' = Append(outqueue, ExitResult)
    /\ inqueue' = inqueue \o [k \in 1..nproc |-> ExitTask]
    /\ UNCHANGED <<prog, nproc, words, poolState, taskqueue, worker, mapres,
                   obsVars, mainVars, era5>>

----
\* the asynchronous example's main program

NumChunks(length, chunksize) ==
    IF chunksize <= 0 THEN 0
    ELSE (length \div chunksize) + (IF length % chunksize # 0 THEN 1 ELSE 0)

\* _ = pool.map_async(task, range(60), chunksize=16, error_callback=galactic_error)
MapAsyncIssue ==
    /\ pc = "map_async"
    /\ map_async(Range(NumValues), ChunkSize, TRUE)
    /\ ran' = [k \in 1..NumChunks(NumValues, ChunkSize) |-> <<>>]
    /\ printed' = [k \in 1..NumValues |-> 0]
    /\ pc' = "main_task"
    /\ UNCHANGED <<prog, nproc, words, poolState, inqueue, outqueue, worker, handlers,
                   raised, cbLog, firstError, mainLog, mainExc, known_serial,
                   known_parallel, era5>>

\* a main_task whose pass waits for the map's result
MainTaskIterWaiting ==
    /\ pc = "main_task"
    /\ mapres.ready
    /\ Len(mainLog) < MainIterations
    /\ mainLog' = Append(mainLog, Len(mainLog))
    /\ pc' = IF Len(mainLog) + 1 = MainIterations THEN "close" ELSE "main_task"
    /\ UNCHANGED <<prog, nproc, words, poolVars, obsVars, mainExc, known_serial,
                   known_parallel, era5>>

\* main_task(): one pass of the loop, print and sleep(sleep_time)
MainTaskIter ==
    /\ pc = "main_task"
    /\ Len(mainLog) < MainIterations
    /\ mainLog' = Append(mainLog, Len(mainLog))
    /\ pc' = IF Len(mainLog) + 1 = MainIterations THEN "close" ELSE "main_task"
    /\ UNCHANGED <<prog, nproc, words, poolVars, obsVars, mainExc, known_serial,
                   known_parallel, era5>>

\* pool.close()
Close ==
    /\ pc = "close"
    /\ poolState = "RUN"
    /\ poolState' = "CLOSE"
    /\ pc' = "join"
    /\ UNCHANGED <<prog, nproc, words, taskqueue, inqueue, outqueue, worker, mapres,
                   handlers, obsVars, mainLog, mainExc, known_serial, known_parallel, era5>>

\* a join that returns as soon as the pool is closed
JoinNoWait ==
    /\ pc = "join"
    /\ poolState = "CLOSE"
    /\ pc' = "exit"
    /\ UNCHANGED <<prog, nproc, words, poolVars, obsVars, mainLog, mainExc, known_serial,
                   known_parallel, era5>>

\* a join followed by the fetch of the map's result, which re-raises its error
JoinFetching ==
    /\ pc = "join"
    /\ poolState = "CLOSE"
    /\ ~handlers.workers
    /\ ~handlers.results
    /\ \A w \in DOMAIN worker : worker[w].state = "exited"
    /\ pc' = IF mapres.success THEN "exit" ELSE "raised"
    /\ mainExc' = IF mapres.success THEN mainExc ELSE "ValueError"
    /\ UNCHANGED <<prog, nproc, words, poolVars, obsVars, mainLog, known_serial,
                   known_parallel, era5>>

\* pool.join(): joins the handler threads and every worker process
Join ==
    /\ pc = "join"
    /\ poolState = "CLOSE"
    /\ ~handlers.workers
    /\ ~handlers.results
    /\ \A w \in DOMAIN worker : worker[w].state = "exited"
    /\ pc' = "exit"
    /\ UNCHANGED <<prog, nproc, words, poolVars, obsVars, mainLog, mainExc, known_serial,
                   known_parallel, era5>>

\* the end of the with block: Pool.__exit__ calls terminate()
ExitWith ==
    /\ pc = "exit"
    /\ poolState' = "TERMINATE"
    /\ worker' = [w \in DOMAIN worker |-> ExitedWorker]
    /\ handlers' = [workers |-> FALSE, results |-> FALSE]
    /\ pc' = "done"
    /\ UNCHANGED <<prog, nproc, words, taskqueue, inqueue, outqueue, mapres, obsVars,
                   mainLog, mainExc, known_serial, known_parallel, era5>>

----
\* the hashing example's main program

\* set(list)
set(list) == {list[k] : k \in DOMAIN list}

\* known_words = {hash_word(w) for w in words}
SerialHash ==
    /\ pc = "serial"
    /\ known_serial' = {hash_word(words[k]) : k \in DOMAIN words}
    /\ pc' = "create"
    /\ UNCHANGED <<prog, nproc, words, poolVars, obsVars, mainLog, mainExc,
                   known_parallel, era5>>

\* p.map(hash_word, words): the map is issued
MapIssue ==
    /\ pc = "map"
    /\ map_async(words, 0, FALSE)
    /\ ran' = [k \in 1..NumChunks(Len(words), default_chunksize(Len(words), nproc)) |-> <<>>]
    /\ printed' = [k \in 1..Len(words) |-> 0]
    /\ pc' = "get"
    /\ UNCHANGED <<prog, nproc, words, poolState, inqueue, outqueue, worker, handlers,
                   raised, cbLog, firstError, mainLog, mainExc, known_serial,
                   known_parallel, era5>>

\* p.map(hash_word, words): .get() waits for the result; known_words = set(...)
MapGet ==
    /\ pc = "get"
    /\ mapres.ready
    /\ IF mapres.success
       THEN /\ known_parallel' = set(mapres.value)
            /\ pc' = "exit"
            /\ mainExc' = mainExc
       ELSE /\ known_parallel' = known_parallel
            /\ pc' = "raised"
            /\ mainExc' = mapres.value
    /\ UNCHANGED <<prog, nproc, words, poolVars, obsVars, mainLog, known_serial, era5>>

----
\* the ERA5 notebook: its code cells, run in any order from a fresh kernel

\* processes = 8
Era5Processes == 8

Era5Fresh == [names |-> {}, inflight |-> {}, files |-> {}, runs |-> 0,
              error |-> "none", pool |-> 0]

Era5Idle == prog = "era5" /\ era5.inflight = {} /\ era5.runs < MaxCellRuns

Era5Rest == <<prog, nproc, words, poolVars, obsVars, mainVars>>

\* from multiprocessing.pool import ThreadPool
CellImportThreadPool ==
    /\ Era5Idle
    /\ era5' = [era5 EXCEPT !.names = @ \cup {"ThreadPool"}, !.runs = @ + 1,
                            !.error = "none"]
    /\ UNCHANGED Era5Rest

\* from multiprocessing import current_process succeeds; multiprocessing has no
\* module threading, so the second import raises and the def is not reached
CellProcessAndThread ==
    /\ Era5Idle
    /\ era5' = [era5 EXCEPT !.names = @ \cup {"current_process"}, !.runs = @ + 1,
                            !.error = "ModuleNotFoundError"]
    /\ UNCHANGED Era5Rest

\* print(os.cpu_count()): this notebook never imports os, so the cell raises
\* before processes = 8
CellProcesses ==
    /\ Era5Idle
    /\ era5' = [era5 EXCEPT !.runs = @ + 1, !.error = "NameError"]
    /\ UNCHANGED Era5Rest

\* import cdsapi; c = cdsapi.Client()
CellClient ==
    /\ Era5Idle
    /\ era5' = [era5 EXCEPT !.names = @ \cup {"c"}, !.runs = @ + 1, !.error = "none"]
    /\ UNCHANGED Era5Rest

\* vars = {'temperature': 130, ...}
CellVars ==
    /\ Era5Idle
    /\ era5' = [era5 EXCEPT !.names = @ \cup {"vars"}, !.runs = @ + 1, !.error = "none"]
    /\ UNCHANGED Era5Rest

Era5File == "era5_temperature_2023-01-01_2023-01-31.nc"

\* thisvar, firstdate, lastdate = ...; c.retrieve(...): the call is made by the
\* cell itself, in the kernel's main thread, and blocks it
CellRetrieve ==
    /\ Era5Idle
    /\ era5' = [era5 EXCEPT
                  !.names = @ \cup {"thisvar", "firstdate", "lastdate"},
                  !.runs = @ + 1,
                  !.error = IF "c" \notin era5.names THEN "NameError"
                            ELSE IF "vars" \notin era5.names THEN "TypeError"
                            ELSE "none",
                  !.inflight = IF {"c", "vars"} \subseteq era5.names
                               THEN {[file |-> Era5File, via |-> "main thread"]}
                               ELSE {}]
    /\ UNCHANGED Era5Rest

\* c.retrieve returns: the file is written
RetrieveDone ==
    /\ prog = "era5"
    /\ era5.inflight # {}
    /\ era5' = [era5 EXCEPT !.inflight = {},
                            !.files = @ \cup {r.file : r \in era5.inflight}]
    /\ UNCHANGED Era5Rest

\* "# define processing list" and "# set up MultiThread pool and execute processes":
\* the two cells hold a comment and no code
CellCommentOnly ==
    /\ Era5Idle
    /\ era5' = [era5 EXCEPT !.runs = @ + 1, !.error = "none"]
    /\ UNCHANGED Era5Rest

----
\* the specifications

InitPool ==
    /\ poolState = "NONE"
    /\ taskqueue = <<>>
    /\ inqueue = <<>>
    /\ outqueue = <<>>
    /\ worker = <<>>
    /\ mapres = NoResult
    /\ handlers = [workers |-> FALSE, results |-> FALSE]
    /\ ran = <<>>
    /\ printed = <<>>
    /\ raised = {}
    /\ cbLog = <<>>
    /\ firstError = <<>>
    /\ mainLog = <<>>
    /\ mainExc = "none"
    /\ known_serial = {}
    /\ known_parallel = {}
    /\ era5 = Era5Fresh

Init ==
    /\ prog = "async"
    /\ pc = "create"
    /\ nproc = Processes
    /\ words = <<>>
    /\ InitPool

WordLists == UNION {[1..n -> WordChoices] : n \in 0..MaxWords}

HashInit ==
    /\ prog = "hash"
    /\ pc = "serial"
    /\ nproc \in ProcChoices
    /\ words \in WordLists
    /\ InitPool

Era5Init ==
    /\ prog = "era5"
    /\ pc = "notebook"
    /\ nproc = 0
    /\ words = <<>>
    /\ InitPool

Next ==
    \/ CreatePool
    \/ MapAsyncIssue
    \/ MainTaskIter
    \/ Close
    \/ Join
    \/ ExitWith
    \/ TaskHandlerFeed
    \/ \E w \in DOMAIN worker : WorkerGet(w)
    \/ \E w \in DOMAIN worker : WorkerRun(w)
    \/ \E w \in DOMAIN worker : WorkerExit(w)
    \/ ResultHandlerSet
    \/ ResultHandlerExit
    \/ HandlersFinish

HashNext ==
    \/ SerialHash
    \/ CreatePool
    \/ MapIssue
    \/ MapGet
    \/ ExitWith
    \/ TaskHandlerFeed
    \/ \E w \in DOMAIN worker : WorkerGet(w)
    \/ \E w \in DOMAIN worker : WorkerRun(w)
    \/ ResultHandlerSet

Era5Next ==
    \/ CellImportThreadPool
    \/ CellProcessAndThread
    \/ CellProcesses
    \/ CellClient
    \/ CellVars
    \/ CellRetrieve
    \/ RetrieveDone
    \/ CellCommentOnly

Spec == Init /\ [][Next]_vars

\* the operating system schedules the main program, the pool's handler threads
\* and every worker process: none of them is held back forever while it can step
MainStep == CreatePool \/ MapAsyncIssue \/ MainTaskIter \/ Close \/ Join \/ ExitWith
TaskHandlerStep == TaskHandlerFeed \/ HandlersFinish
ResultHandlerStep == ResultHandlerSet \/ ResultHandlerExit
WorkerStep(w) == WorkerGet(w) \/ WorkerRun(w) \/ WorkerExit(w)

Fairness ==
    /\ WF_vars(MainStep)
    /\ WF_vars(TaskHandlerStep)
    /\ WF_vars(ResultHandlerStep)
    /\ \A w \in 1..Processes : WF_vars(WorkerStep(w))

FairSpec == Spec /\ Fairness

HashSpec == HashInit /\ [][HashNext]_vars

Era5Spec == Era5Init /\ [][Era5Next]_vars

----
\* what the claims speak of

Issued == pc \notin {"create", "map_async"}
Joined == pc \in {"exit", "done"}

\* the chunks still waiting, and those a worker is running
QueuedTasks == {taskqueue[k] : k \in DOMAIN taskqueue}
                   \cup ({inqueue[k] : k \in DOMAIN inqueue} \ {ExitTask})
Busy == {w \in DOMAIN worker : worker[w].state = "busy"}
RunningTasks == {worker[w].task : w \in Busy}

\* the values task was called with
CalledValues == UNION {{ran[k][j][2] : j \in DOMAIN ran[k]} : k \in DOMAIN ran}

RECURSIVE Flatten(_)
Flatten(tasks) ==
    IF tasks = <<>> THEN <<>> ELSE Head(tasks).args \o Flatten(Tail(tasks))

\* v comes after a raising value in its chunk
Skipped(v) ==
    \E s \in Sentinels : s \div ChunkSize = v \div ChunkSize /\ s < v

----
C6_Chunking ==
    /\ \A t \in QueuedTasks \cup RunningTasks :
          /\ Len(t.args) >= 1
          /\ Len(t.args) <= ChunkSize
          /\ \A j \in DOMAIN t.args : t.args[j] = t.i * ChunkSize + j - 1
    /\ (Issued /\ inqueue = <<>> /\ outqueue = <<>> /\ Busy = {} /\ CalledValues = {}
          /\ mapres.cached)
          => Flatten(taskqueue) = Range(NumValues)
    /\ \A k \in DOMAIN ran : \A j \in DOMAIN ran[k] :
          /\ ran[k][j][1] = ran[k][1][1]
          /\ ran[k][j][2] = (k - 1) * ChunkSize + j - 1
    /\ \A t1, t2 \in QueuedTasks \cup RunningTasks : t1.i = t2.i => t1 = t2
    /\ Cardinality(RunningTasks) = Cardinality(Busy)
    /\ Cardinality(Busy) <= Processes
    /\ DOMAIN worker \subseteq 1..Processes

C6_Witness ==
    /\ Cardinality(Busy) = Processes
    /\ \E k \in DOMAIN ran : Len(ran[k]) = ChunkSize - 1
    /\ \E k \in DOMAIN ran : ran[k] = <<>>

\* C7 as claimed: when pool.join() has returned, every value other than the two
\* impossible ones has printed its line exactly once.
C7_EveryOtherValueProcessed ==
    Joined => \A v \in 0..(NumValues - 1) :
                 v \notin {SentinelLo, SentinelHi} => printed[v + 1] = 1

\* C7 amended: no value prints its line twice, and when pool.join() has returned
\* task has been called with exactly the values that no impossible value precedes
\* in their chunk, and each of them other than 13 and 42 has printed its line once;
\* the values after an impossible value in its chunk are never processed.
C7_ProcessedUnlessSkipped ==
    /\ \A k \in DOMAIN printed : printed[k] <= 1
    /\ Joined => \A v \in 0..(NumValues - 1) :
                    printed[v + 1] = (IF v \in Sentinels \/ Skipped(v) THEN 0 ELSE 1)
    /\ Joined => CalledValues = {v \in 0..(NumValues - 1) : ~Skipped(v)}

C7_Witness ==
    /\ pc = "done"
    /\ printed[SentinelLo] = 1
    /\ printed[SentinelLo + 2] = 0
    /\ printed[SentinelHi + 2] = 0

\* C9: galactic_error is called at most once, only when no chunk is queued or
\* running any more, with the first error the result handler received; when
\* pool.join() has returned it has been called exactly once.
C9_CallbackOnceAfterAllChunks ==
    /\ Len(cbLog) <= 1
    /\ cbLog # <<>> => /\ QueuedTasks = {}
                       /\ Busy = {}
                       /\ outqueue \in {<<>>, <<ExitResult>>}
                       /\ cbLog = firstError
    /\ Joined => Len(cbLog) = 1

C9_Witness ==
    /\ cbLog = <<ValueError(SentinelHi)>>
    /\ raised = {ValueError(SentinelLo), ValueError(SentinelHi)}
    /\ pc = "main_task"

\* C2: when p.map has returned, the set of its results is the set the serial
\* comprehension computed, for every word list, worker count and schedule.
C2_ParallelEqualsSerial ==
    pc \in {"exit", "done"} => known_parallel = known_serial

C2_Witness ==
    /\ pc = "done"
    /\ Len(words) = MaxWords
    /\ mapres.chunksize = 2
    /\ Cardinality(known_parallel) = 2

\* C3: map_async can always be called and returns with every chunk still waiting
\* and no task called; while main_task runs, its next pass is always possible,
\* whatever the workers are doing.
C3_MainContinues ==
    /\ [](pc = "map_async" => ENABLED MapAsyncIssue)
    /\ [][(pc = "map_async" /\ pc' = "main_task")
            => /\ CalledValues' = {}
               /\ Len(taskqueue') = mapres'.number_left
               /\ inqueue' = <<>>
               /\ ~mapres'.ready]_vars
    /\ [](pc = "main_task" => ENABLED MainTaskIter)

C3_Witness ==
    /\ pc = "main_task"
    /\ Len(mainLog) >= 1
    /\ Busy # {}
    /\ QueuedTasks # {}
    /\ ~mapres.ready

\* C4: once pool.join() has returned no chunk is queued or running, every result
\* has been handled, and from then on no task is called, no line is printed and
\* the callback is not called.
C4_JoinWaitsForAllTasks ==
    /\ [](Joined => /\ QueuedTasks = {}
                    /\ Busy = {}
                    /\ outqueue = <<>>
                    /\ mapres.ready
                    /\ mapres.number_left = 0)
    /\ [][Joined => (printed' = printed /\ ran' = ran /\ cbLog' = cbLog)]_vars

C4_Witness ==
    /\ pc = "exit"
    /\ poolState = "CLOSE"
    /\ printed[NumValues] = 1
    /\ \A w \in DOMAIN worker : worker[w].state = "exited"

\* C5 as claimed: every retrieval in progress was issued to a ThreadPool of
\* `processes` workers.
C5_RetrievalsInThreadPool ==
    \A r \in era5.inflight : r.via = "ThreadPool" /\ era5.pool = Era5Processes

ProgramOrder ==
    {<<"create", "map_async">>, <<"map_async", "main_task">>, <<"main_task", "close">>,
     <<"close", "join">>, <<"join", "exit">>, <<"exit", "done">>}

\* C8: no exception reaches the main program, whatever the workers raise: the
\* '$main(i)' lines come in the order 0, 1, ..., all of them before pool.close(),
\* and the main program only moves forward along create, map_async, main_task,
\* close, join, exit of the with block.
C8_NoErrorReachesMain ==
    /\ [](/\ mainExc = "none"
          /\ pc \in {"create", "map_async", "main_task", "close", "join", "exit", "done"}
          /\ mainLog = Range(Len(mainLog))
          /\ Len(mainLog) <= MainIterations
          /\ pc \in {"create", "map_async"} => mainLog = <<>>
          /\ pc \in {"close", "join", "exit", "done"} => Len(mainLog) = MainIterations)
    /\ [][pc' # pc => <<pc, pc'>> \in ProgramOrder]_vars

C8_Witness ==
    /\ pc = "done"
    /\ mainExc = "none"
    /\ raised # {}
    /\ ~mapres.success
    /\ Len(mainLog) = MainIterations

\* C10: under fair scheduling the program ends: main_task has made all its passes,
\* every chunk has delivered a result or an error, pool.join() has returned.
C10_Terminates ==
    <>(/\ pc = "done"
       /\ Len(mainLog) = MainIterations
       /\ mapres.ready
       /\ mapres.number_left = 0
       /\ QueuedTasks = {}
       /\ Busy = {})

C10_Witness ==
    /\ pc = "done"
    /\ poolState = "TERMINATE"
    /\ mapres.number_left = 0
    /\ Len(mainLog) = MainIterations

====
